---------------------------- MODULE Spec2Model ----------------------------
(***************************************************************************)
(* Model of the espanso low-level input layer:                             *)
(*   - the matching-engine adapter  (src/src/engine.rs, Engine::on_match)  *)
(*   - the backend dispatcher       (src/espanso-inject/src/lib.rs,        *)
(*                                   get_injector)                         *)
(*   - the Linux capture context    (src/src/context/linux.rs,             *)
(*                                   keypress_callback and the channel)    *)
(*                                                                         *)
(* A character is its Unicode scalar value, a string is a sequence of      *)
(* characters.  The byte length of a string is computed from the UTF-8     *)
(* width of each of its characters, as str::len does.                      *)
(***************************************************************************)
EXTENDS Integers, Sequences, FiniteSets, TLC

(***************************************************************************)
(* Bounds of the model.                                                    *)
(***************************************************************************)
MaxTrigger == 2
MaxReplace == 3

(***************************************************************************)
(* Characters.                                                             *)
(***************************************************************************)
LF == 10
CR == 13

\* Characters a trigger is drawn from: 'a' (1 byte), e-acute (2 bytes),
\* the euro sign (3 bytes).
TriggerChars == {97, 233, 8364}

\* Characters a replacement is drawn from: 'a', 'b', "\n", "\r".
ReplaceChars == {97, 98, LF, CR}

SeqsUpTo(S, n) == UNION {[1..k -> S] : k \in 0..n}

Triggers == SeqsUpTo(TriggerChars, MaxTrigger)
Replaces == SeqsUpTo(ReplaceChars, MaxReplace)

\* A Match as the engine receives it (only the fields on_match reads).
Matches == [trigger : Triggers, replace : Replaces]

(***************************************************************************)
(* Standard library functions used by on_match.                            *)
(***************************************************************************)
\* char::len_utf8
len_utf8(c) ==
    IF c < 128 THEN 1
    ELSE IF c < 2048 THEN 2
    ELSE IF c < 65536 THEN 3
    ELSE 4

\* str::len: the length of the string in bytes.
RECURSIVE str_len(_)
str_len(s) == IF s = <<>> THEN 0 ELSE len_utf8(Head(s)) + str_len(Tail(s))

\* A line without its terminator: "\n" has been removed by the caller, a
\* "\r" that preceded it is removed here.
StripCR(line) ==
    IF line # <<>> /\ line[Len(line)] = CR
    THEN SubSeq(line, 1, Len(line) - 1)
    ELSE line

\* str::lines: lines end with "\n" or "\r\n", the terminator is not part of
\* the line, and the final line ending is optional (a text that ends with a
\* line ending has no empty last line).  cur is the line being read.
RECURSIVE LinesFrom(_, _)
LinesFrom(rest, cur) ==
    IF rest = <<>>
    THEN (IF cur = <<>> THEN <<>> ELSE <<cur>>)
    ELSE IF Head(rest) = LF
         THEN <<StripCR(cur)>> \o LinesFrom(Tail(rest), <<>>)
         ELSE LinesFrom(Tail(rest), Append(cur, Head(rest)))

\* A buggy str::lines that leaves the terminator on the line.
LinesKeepTerminator(text) ==
    LET RECURSIVE Go(_, _)
        Go(rest, cur) ==
            IF rest = <<>>
            THEN (IF cur = <<>> THEN <<>> ELSE <<cur>>)
            ELSE IF Head(rest) = LF
                 THEN <<Append(cur, LF)>> \o Go(Tail(rest), <<>>)
                 ELSE Go(Tail(rest), Append(cur, Head(rest)))
    IN Go(text, <<>>)

lines(text) == LinesFrom(text, <<>>)

(***************************************************************************)
(* The calls the engine makes on its KeyboardSender, in order.             *)
(***************************************************************************)
delete_string(count) == [op |-> "delete_string", count |-> count, text |-> <<>>]
send_enter           == [op |-> "send_enter",    count |-> 0,     text |-> <<>>]
send_string(s)       == [op |-> "send_string",   count |-> 0,     text |-> s]

\* The argument of the delete_string call of on_match.
DeleteCount(m) == str_len(m.trigger)

\* A loop body that deletes after typing the line.
LoopBodyDeleting(i, split) ==
    (IF i > 0 THEN <<send_enter>> ELSE <<>>)
        \o <<send_string(split), delete_string(Len(split))>>

\* A loop body that presses Enter before every line, the first included.
LoopBodyEnterAlways(i, split) == <<send_enter, send_string(split)>>

\* The body of the loop of on_match for the i-th line (i counts from 0).
LoopBody(i, split) ==
    (IF i > 0 THEN <<send_enter>> ELSE <<>>) \o <<send_string(split)>>

VARIABLES
    e_pc,       \* position of the engine: "idle", "delete", "loop", "done"
    e_match,    \* the match being handled
    e_splits,   \* the lines of the replacement (the iterator of on_match)
    e_i,        \* the index of enumerate()
    calls       \* the calls made on the sender for the current match

evars == <<e_pc, e_match, e_splits, e_i, calls>>

NoMatch == [trigger |-> <<>>, replace |-> <<>>]

EngineInit ==
    /\ e_pc = "idle"
    /\ e_match = NoMatch
    /\ e_splits = <<>>
    /\ e_i = 0
    /\ calls = <<>>

\* The matcher calls on_match(m).
OnMatchCall ==
    /\ e_pc = "idle"
    /\ \E m \in Matches : e_match' = m
    /\ e_pc' = "delete"
    /\ e_splits' = <<>>
    /\ e_i' = 0
    /\ calls' = <<>>

\* self.sender.delete_string(m.trigger.len() as i32);
\* let splits = m.replace.lines();
OnMatchDelete ==
    /\ e_pc = "delete"
    /\ calls' = Append(calls, delete_string(DeleteCount(e_match)))
    /\ e_splits' = lines(e_match.replace)
    /\ e_i' = 0
    /\ e_pc' = "loop"
    /\ UNCHANGED e_match

\* One iteration of: for (i, split) in splits.enumerate() { ... }
OnMatchIter ==
    /\ e_pc = "loop"
    /\ e_i < Len(e_splits)
    /\ calls' = calls \o LoopBody(e_i, e_splits[e_i + 1])
    /\ e_i' = e_i + 1
    /\ UNCHANGED <<e_pc, e_match, e_splits>>

\* The iterator is exhausted: on_match returns.
OnMatchReturn ==
    /\ e_pc = "loop"
    /\ e_i = Len(e_splits)
    /\ e_pc' = "done"
    /\ UNCHANGED <<e_match, e_splits, e_i, calls>>

\* The matcher goes back to waiting for the next trigger; the engine keeps
\* nothing of the match it handled.
MatcherWait ==
    /\ e_pc = "done"
    /\ e_pc' = "idle"
    /\ e_match' = NoMatch
    /\ e_splits' = <<>>
    /\ e_i' = 0
    /\ calls' = <<>>

EngineNext ==
    \/ OnMatchCall
    \/ OnMatchDelete
    \/ OnMatchIter
    \/ OnMatchReturn
    \/ MatcherWait


(***************************************************************************)
(* The backend dispatcher: get_injector.                                   *)
(***************************************************************************)
\* target_os of the build.
OperatingSystems == {"windows", "macos", "linux"}

\* The session a Linux build is made for: the cargo feature "wayland" is
\* set or not.
Sessions == {"x11", "wayland"}

\* Option<T> is a sequence of at most one element.
None == <<>>
Some(x) == <<x>>

\* InjectorCreationOptions.  The fields other than use_evdev are handed on
\* to the EVDEV constructor.
CreationOptions ==
    [use_evdev : BOOLEAN,
     evdev_modifiers : {None, Some(<<>>), Some(<<50>>)},
     evdev_max_modifier_combination_len : {None, Some(1), Some(2)},
     evdev_keyboard_rmlvo : {None, Some("us")}]

\* InjectorCreationOptions::default()
DefaultCreationOptions ==
    [use_evdev |-> FALSE,
     evdev_modifiers |-> None,
     evdev_max_modifier_combination_len |-> None,
     evdev_keyboard_rmlvo |-> None]

\* A dispatcher that looks at use_evdev also in a Wayland build.
SelectBackendUseEvdevOnly(os, session, options) ==
    IF os = "windows" THEN "Win32"
    ELSE IF os = "macos" THEN "Mac"
    ELSE IF options.use_evdev THEN "EVDEV" ELSE "X11"

\* The backend whose constructor the variant of get_injector compiled for
\* (os, session) invokes.
SelectBackend(os, session, options) ==
    IF os = "windows" THEN "Win32"
    ELSE IF os = "macos" THEN "Mac"
    ELSE IF session = "wayland" THEN "EVDEV"
    ELSE IF options.use_evdev THEN "EVDEV" ELSE "X11"

\* Win32Injector::new() and MacInjector::new() return the injector itself,
\* EVDEVInjector::new(options) and X11Injector::new() return a Result.
Fallible(backend) == backend \in {"EVDEV", "X11"}

Ok(backend) == [ok |-> TRUE, backend |-> backend]
Err(backend) == [ok |-> FALSE, backend |-> backend]
NoResult == [ok |-> FALSE, backend |-> "none"]

\* A dispatcher that swallows the failure of the constructor and hands out
\* the injector all the same.
TryBoxSwallow(backend, constructed) == Ok(backend)

\* Ok(Box::new(B::new(..)?)): the failure of the constructor is returned by
\* the ? operator, its success is boxed.
TryBox(backend, constructed) ==
    IF constructed THEN Ok(backend) ELSE Err(backend)

VARIABLES
    d_os,           \* target_os of the build
    d_session,      \* session of the build
    d_pc,           \* "idle", "construct", "returned"
    d_options,      \* the argument of get_injector
    d_constructed,  \* the constructors invoked by the current call, in order
    d_ctor_ok,      \* whether the last constructor invoked succeeded
    d_result        \* the value get_injector returned

dvars == <<d_os, d_session, d_pc, d_options, d_constructed, d_ctor_ok, d_result>>

DispatchIdle ==
    /\ d_pc = "idle"
    /\ d_options = DefaultCreationOptions
    /\ d_constructed = <<>>
    /\ d_ctor_ok = TRUE
    /\ d_result = NoResult

DispatchInit ==
    /\ d_os \in OperatingSystems
    /\ d_session \in Sessions
    /\ DispatchIdle

\* The caller calls get_injector(options).
GetInjectorCall ==
    /\ d_pc \in {"idle", "returned"}
    /\ \E o \in CreationOptions : d_options' = o
    /\ d_pc' = "construct"
    /\ d_constructed' = <<>>
    /\ d_ctor_ok' = TRUE
    /\ d_result' = NoResult
    /\ UNCHANGED <<d_os, d_session>>

\* get_injector invokes the constructor of the selected backend and returns.
GetInjectorConstruct ==
    /\ d_pc = "construct"
    /\ LET backend == SelectBackend(d_os, d_session, d_options) IN
        /\ \E constructed \in (IF Fallible(backend) THEN BOOLEAN ELSE {TRUE}) :
            /\ d_ctor_ok' = constructed
            /\ d_result' = TryBox(backend, constructed)
        /\ d_constructed' = Append(d_constructed, backend)
    /\ d_pc' = "returned"
    /\ UNCHANGED <<d_os, d_session, d_options>>

DispatchNext ==
    \/ GetInjectorCall
    \/ GetInjectorConstruct


(***************************************************************************)
(* The Linux capture context: keypress_callback and the channel to the     *)
(* consumer.                                                               *)
(***************************************************************************)
\* Number of native key events delivered to the callback.
MaxKeys == 2
\* Length of the buffer the native layer passes.
MaxBuf == 2

\* Bytes the buffer is drawn from: 'a', and the two bytes of e-acute
\* (0xC3 0xA9); 0xA9 alone, or 0xC3 without a continuation byte, is not
\* valid UTF-8.
BufferBytes == {97, 195, 169}
Buffers == SeqsUpTo(BufferBytes, MaxBuf)

\* Values of is_modifier and key_code the native layer passes: the five
\* known codes, and one code outside the set.
IsModifierValues == {0, 1}
KeyCodes == {133, 50, 64, 37, 22, 38}

\* U+FFFD REPLACEMENT CHARACTER
REPLACEMENT_CHARACTER == 65533

IsCont(b) == b >= 128 /\ b <= 191

\* A decoder that gives up on a buffer that does not start with valid
\* UTF-8 (String::from_utf8 in the place of from_utf8_lossy).
FirstCharStrict(buffer) ==
    IF buffer = <<>> THEN None
    ELSE IF buffer[1] < 128 THEN Some(buffer[1])
    ELSE IF /\ buffer[1] >= 194 /\ buffer[1] <= 223
            /\ Len(buffer) >= 2 /\ IsCont(buffer[2])
         THEN Some((buffer[1] - 192) * 64 + (buffer[2] - 128))
    ELSE None

\* A decoder that yields U+0000 for an empty buffer
\* (.nth(0).unwrap_or_default()).
FirstCharNul(buffer) ==
    IF buffer = <<>> THEN Some(0) ELSE FirstCharStrict(buffer)

\* String::from_utf8_lossy(buffer).chars().nth(0): the first character of
\* the buffer decoded as UTF-8, U+FFFD when the buffer does not start with
\* a valid sequence, nothing when the buffer is empty.
FirstChar(buffer) ==
    IF buffer = <<>> THEN None
    ELSE LET n == Len(buffer)
             b0 == buffer[1]
         IN  IF b0 < 128 THEN Some(b0)
             ELSE IF b0 >= 194 /\ b0 <= 223
             THEN IF n >= 2 /\ IsCont(buffer[2])
                  THEN Some((b0 - 192) * 64 + (buffer[2] - 128))
                  ELSE Some(REPLACEMENT_CHARACTER)
             ELSE IF b0 >= 224 /\ b0 <= 239
             THEN IF /\ n >= 3
                     /\ IsCont(buffer[2])
                     /\ IsCont(buffer[3])
                     /\ (b0 = 224 => buffer[2] >= 160)
                     /\ (b0 = 237 => buffer[2] <= 159)
                  THEN Some((b0 - 224) * 4096 + (buffer[2] - 128) * 64
                                + (buffer[3] - 128))
                  ELSE Some(REPLACEMENT_CHARACTER)
             ELSE IF b0 >= 240 /\ b0 <= 244
             THEN IF /\ n >= 4
                     /\ IsCont(buffer[2])
                     /\ IsCont(buffer[3])
                     /\ IsCont(buffer[4])
                     /\ (b0 = 240 => buffer[2] >= 144)
                     /\ (b0 = 244 => buffer[2] <= 143)
                  THEN Some((b0 - 240) * 262144 + (buffer[2] - 128) * 4096
                                + (buffer[3] - 128) * 64 + (buffer[4] - 128))
                  ELSE Some(REPLACEMENT_CHARACTER)
             ELSE Some(REPLACEMENT_CHARACTER)

\* Event::Key(KeyEvent::Char(c)) and Event::Key(KeyEvent::Modifier(m))
CharEvent(c) == [kind |-> "Char", char |-> c, modifier |-> "NONE"]
ModifierEvent(m) == [kind |-> "Modifier", char |-> 0, modifier |-> m]

\* A match of key_code that maps every code to a modifier.
ModifierOfAny(key_code) ==
    IF key_code = 133 THEN Some("META")
    ELSE IF key_code = 50 THEN Some("SHIFT")
    ELSE IF key_code = 64 THEN Some("ALT")
    ELSE IF key_code = 37 THEN Some("CTRL")
    ELSE Some("BACKSPACE")

\* A match of key_code with the arms of SHIFT and ALT exchanged.
ModifierOfSwapped(key_code) ==
    IF key_code = 133 THEN Some("META")
    ELSE IF key_code = 50 THEN Some("ALT")
    ELSE IF key_code = 64 THEN Some("SHIFT")
    ELSE IF key_code = 37 THEN Some("CTRL")
    ELSE IF key_code = 22 THEN Some("BACKSPACE")
    ELSE None

\* match key_code { 133 => Some(META), ..., _ => None }
ModifierOf(key_code) ==
    IF key_code = 133 THEN Some("META")
    ELSE IF key_code = 50 THEN Some("SHIFT")
    ELSE IF key_code = 64 THEN Some("ALT")
    ELSE IF key_code = 37 THEN Some("CTRL")
    ELSE IF key_code = 22 THEN Some("BACKSPACE")
    ELSE None

\* The event keypress_callback has to send, if any.
CallbackEvent(buffer, is_modifier, key_code) ==
    IF is_modifier = 0
    THEN (IF FirstChar(buffer) = None THEN None
          ELSE Some(CharEvent(FirstChar(buffer)[1])))
    ELSE (IF ModifierOf(key_code) = None THEN None
          ELSE Some(ModifierEvent(ModifierOf(key_code)[1])))

\* A channel that hands out the newest message first.
SendLifo(queue, event) == <<event>> \o queue

\* Sender::send on a channel whose receiver is alive: the channel is
\* unbounded and first-in first-out, the message is queued behind the ones
\* not yet received.
Send(queue, event) == Append(queue, event)

VARIABLES
    c_pc,        \* the capture thread: "eventloop", or how a panic in the
                 \* callback ended: "aborted", "unwound"
    c_rx,        \* the receiving end of the channel: "alive", "dropped"
    c_chan,      \* the messages sent and not yet received
    c_received,  \* the messages the consumer received, in order
    c_emitted,   \* the events the callback had to send, in invocation order
    c_keys,      \* number of invocations of the callback so far
    c_last       \* the last invocation: its arguments, the number of
                 \* channel sends it made, whether it returned

cvars == <<c_pc, c_rx, c_chan, c_received, c_emitted, c_keys, c_last>>

Invocation(buffer, is_modifier, key_code, sends, returned) ==
    [buffer |-> buffer, is_modifier |-> is_modifier, key_code |-> key_code,
     sends |-> sends, returned |-> returned]

CaptureInit ==
    /\ c_pc = "eventloop"
    /\ c_rx = "alive"
    /\ c_chan = <<>>
    /\ c_received = <<>>
    /\ c_emitted = <<>>
    /\ c_keys = 0
    /\ c_last = Invocation(<<>>, 0, 0, 0, TRUE)

\* The native event loop invokes keypress_callback(_self, raw_buffer, len,
\* is_modifier, key_code); buffer is the len bytes at raw_buffer.
\* send(event).unwrap() panics when the receiver is gone; the panic leaves
\* an extern "C" function, which aborts the process or unwinds into the
\* native frames, depending on the toolchain.
KeypressCallback ==
    /\ c_pc = "eventloop"
    /\ c_keys < MaxKeys
    /\ c_keys' = c_keys + 1
    /\ \E buffer \in Buffers, is_modifier \in IsModifierValues,
          key_code \in KeyCodes :
        LET ev == CallbackEvent(buffer, is_modifier, key_code) IN
        IF ev = None
        THEN /\ c_last' = Invocation(buffer, is_modifier, key_code, 0, TRUE)
             /\ UNCHANGED <<c_pc, c_chan, c_emitted>>
        ELSE /\ c_emitted' = Append(c_emitted, ev[1])
             /\ IF c_rx = "alive"
                THEN /\ c_chan' = Send(c_chan, ev[1])
                     /\ c_last' = Invocation(buffer, is_modifier, key_code,
                                             1, TRUE)
                     /\ UNCHANGED c_pc
                ELSE /\ c_pc' \in {"aborted", "unwound"}
                     /\ c_last' = Invocation(buffer, is_modifier, key_code,
                                             1, FALSE)
                     /\ UNCHANGED c_chan
    /\ UNCHANGED <<c_rx, c_received>>

\* The consumer receives the oldest message of the channel.
Recv ==
    /\ c_rx = "alive"
    /\ c_chan # <<>>
    /\ c_received' = Append(c_received, Head(c_chan))
    /\ c_chan' = Tail(c_chan)
    /\ UNCHANGED <<c_pc, c_rx, c_emitted, c_keys, c_last>>

\* The consumer drops the Receiver; the messages not yet received are
\* dropped with it.
DropReceiver ==
    /\ c_rx = "alive"
    /\ c_rx' = "dropped"
    /\ c_chan' = <<>>
    /\ UNCHANGED <<c_pc, c_received, c_emitted, c_keys, c_last>>

CaptureNext ==
    \/ KeypressCallback
    \/ Recv
    \/ DropReceiver

(***************************************************************************)
(* The life of a capture context: LinuxContext::new, eventloop, drop, and  *)
(* the native layer they call.                                             *)
(***************************************************************************)
\* Number of contexts created.
MaxContexts == 2

ContextIds == 1..MaxContexts

\* The status initialize returns.
StatusCodes == {"ok", "error"}

\* The native layer keeps one callback, one context handle and one hook for
\* the process: register_keypress_callback and cleanup take no context.
\* handle = 0 is the null handle.
NativeInit == [callback |-> FALSE, handle |-> 0, hook |-> FALSE]

\* The effect of a native entry point: register_keypress_callback stores
\* the callback; initialize(handle) stores the handle and installs the hook
\* when it succeeds and leaves the layer as it was when it fails; cleanup
\* uninstalls the hook.
NativeCall(n, fn, handle, status) ==
    IF fn = "register_keypress_callback" THEN [n EXCEPT !.callback = TRUE]
    ELSE IF fn = "initialize"
         THEN (IF status = "ok"
               THEN [n EXCEPT !.handle = handle, !.hook = TRUE]
               ELSE n)
    ELSE IF fn = "cleanup" THEN [n EXCEPT !.hook = FALSE]
    ELSE n

RECURSIVE NativeCalls(_, _, _, _)
NativeCalls(n, fns, handle, status) ==
    IF fns = <<>> THEN n
    ELSE NativeCalls(NativeCall(n, Head(fns), handle, status),
                     Tail(fns), handle, status)

\* The native entry points LinuxContext::new calls, in order.
NewCalls == <<"register_keypress_callback", "initialize">>

\* A new that hands out the context only when initialize succeeded.
NewResultChecked(status) == IF status = "ok" THEN "live" ELSE "failed"

\* What LinuxContext::new returns: the context, whatever initialize
\* returned (its status is not read).
NewResult(status) == "live"

\* A drop that leaves the hook installed.
DropCallsNothing == <<>>

\* The native entry points the drop of a LinuxContext calls.
DropCalls == <<"cleanup">>

CountOf(fns, fn) == Cardinality({k \in 1..Len(fns) : fns[k] = fn})

VARIABLES
    l_ctx,       \* each context: "none" (not created), "live", "dropped";
                 \* "failed" when new returned no context
    l_status,    \* the status initialize returned to the new of each
                 \* context, "none" before
    l_cleanups,  \* the cleanup calls made by the drop of each context
    l_ran,       \* whether eventloop has been run on each context
    l_loop,      \* the context whose eventloop is running, 0 when none is
    l_self,      \* the context handle of the last callback invocation
    l_stale,     \* whether a callback invocation got the handle of a
                 \* context that was not live
    native       \* the native layer

lvars == <<l_ctx, l_status, l_cleanups, l_ran, l_loop, l_self, l_stale, native>>

LifeInit ==
    /\ l_ctx = [i \in ContextIds |-> "none"]
    /\ l_status = [i \in ContextIds |-> "none"]
    /\ l_cleanups = [i \in ContextIds |-> 0]
    /\ l_ran = [i \in ContextIds |-> FALSE]
    /\ l_loop = 0
    /\ l_self = 0
    /\ l_stale = FALSE
    /\ native = NativeInit

\* LinuxContext::new(send_channel): boxes the context, registers the
\* callback, initializes the hook with the pointer to the context, returns
\* the box.  Contexts are numbered in the order of their creation.
ContextNew(i) ==
    /\ l_ctx[i] = "none"
    /\ \A j \in ContextIds : j < i => l_ctx[j] # "none"
    /\ \E status \in StatusCodes :
        /\ native' = NativeCalls(native, NewCalls, i, status)
        /\ l_status' = [l_status EXCEPT ![i] = status]
        /\ l_ctx' = [l_ctx EXCEPT ![i] = NewResult(status)]
    /\ UNCHANGED <<l_cleanups, l_ran, l_loop, l_self, l_stale>>

\* Context::eventloop(&self) enters the native event loop on the capture
\* thread.
EventLoopEnter(i) ==
    /\ l_ctx[i] = "live"
    /\ l_loop = 0
    /\ l_loop' = i
    /\ l_ran' = [l_ran EXCEPT ![i] = TRUE]
    /\ UNCHANGED <<l_ctx, l_status, l_cleanups, l_self, l_stale, native>>

\* The native event loop, with the hook installed, invokes the registered
\* callback with the context handle it was initialized with.
NativeKeyEvent ==
    /\ l_loop # 0
    /\ native.callback
    /\ native.hook
    /\ l_self' = native.handle
    /\ l_stale' = (l_stale \/ l_ctx[native.handle] # "live")
    /\ UNCHANGED <<l_ctx, l_status, l_cleanups, l_ran, l_loop, native>>

\* The native event loop returns.
EventLoopExit ==
    /\ l_loop # 0
    /\ l_loop' = 0
    /\ UNCHANGED <<l_ctx, l_status, l_cleanups, l_ran, l_self, l_stale, native>>

\* The owner drops the context: Drop::drop calls cleanup.  eventloop
\* borrows the context, so the context whose loop is running is not
\* dropped.
ContextDrop(i) ==
    /\ l_ctx[i] = "live"
    /\ l_loop # i
    /\ l_ctx' = [l_ctx EXCEPT ![i] = "dropped"]
    /\ native' = NativeCalls(native, DropCalls, i, "ok")
    /\ l_cleanups' =
           [l_cleanups EXCEPT ![i] = @ + CountOf(DropCalls, "cleanup")]
    /\ UNCHANGED <<l_status, l_ran, l_loop, l_self, l_stale>>

LifeNext ==
    \/ \E i \in ContextIds : ContextNew(i)
    \/ \E i \in ContextIds : EventLoopEnter(i)
    \/ NativeKeyEvent
    \/ EventLoopExit
    \/ \E i \in ContextIds : ContextDrop(i)

(***************************************************************************)
(* The Injector capability and its options.                                *)
(***************************************************************************)
\* Number of keys of one send_keys or send_key_combination call.
MaxChord == 3

\* target_os of a build, the systems InjectionOptions::default knows and
\* one it does not know.
TargetSystems == OperatingSystems \cup {"freebsd"}

\* The logical keys of the calls.
Keys == {"CTRL", "SHIFT", "C"}
KeyLists == SeqsUpTo(Keys, MaxChord)

\* A default delay of 0 on macOS too.
DefaultDelayNoMac(os) ==
    IF os = "windows" THEN Some(0)
    ELSE IF os = "macos" THEN Some(0)
    ELSE IF os = "linux" THEN Some(0)
    ELSE None

\* default_delay of InjectionOptions::default; None is panic!("unsupported
\* OS").
DefaultDelay(os) ==
    IF os = "windows" THEN Some(0)
    ELSE IF os = "macos" THEN Some(2)
    ELSE IF os = "linux" THEN Some(0)
    ELSE None

NoOptions == [state |-> "none", delay |-> 0, disable_fast_inject |-> FALSE]
PanicOptions == [state |-> "panic", delay |-> 0, disable_fast_inject |-> FALSE]

\* InjectionOptions::default()
InjectionOptionsDefault(os) ==
    IF DefaultDelay(os) = None THEN PanicOptions
    ELSE [state |-> "value", delay |-> DefaultDelay(os)[1],
          disable_fast_inject |-> FALSE]

Press(k) == [action |-> "press", key |-> k]
Release(k) == [action |-> "release", key |-> k]

\* send_keys: each key is pressed and released, in list order.
RECURSIVE SendKeysEvents(_)
SendKeysEvents(keys) ==
    IF keys = <<>> THEN <<>>
    ELSE <<Press(Head(keys)), Release(Head(keys))>> \o SendKeysEvents(Tail(keys))

\* A send_key_combination that releases the keys in the order it pressed
\* them.
KeyCombinationSameOrder(keys) ==
    [k \in 1..Len(keys) |-> Press(keys[k])]
        \o [k \in 1..Len(keys) |-> Release(keys[k])]

\* send_key_combination: every key is pressed in list order, then the keys
\* are released in reverse order.
RECURSIVE KeyCombinationEvents(_)
KeyCombinationEvents(keys) ==
    IF keys = <<>> THEN <<>>
    ELSE <<Press(Head(keys))>> \o KeyCombinationEvents(Tail(keys))
             \o <<Release(Head(keys))>>

VARIABLES
    i_os,       \* target_os of the build
    i_options,  \* the InjectionOptions the caller built with default()
    i_call,     \* the last call made on the injector
    i_events    \* the key events that call dispatched, in order

ivars == <<i_os, i_options, i_call, i_events>>

NoCall == [op |-> "none", keys |-> <<>>]

InjectIdle ==
    /\ i_options = NoOptions
    /\ i_call = NoCall
    /\ i_events = <<>>

InjectInit == i_os \in TargetSystems /\ InjectIdle

InjectAtRest == i_os = "linux" /\ InjectIdle

\* The caller builds the options of its calls: InjectionOptions::default().
OptionsDefault ==
    /\ i_options.state = "none"
    /\ i_options' = InjectionOptionsDefault(i_os)
    /\ UNCHANGED <<i_os, i_call, i_events>>

\* injector.send_keys(keys, options)
SendKeys ==
    /\ i_options.state = "value"
    /\ \E keys \in KeyLists :
        /\ i_call' = [op |-> "send_keys", keys |-> keys]
        /\ i_events' = SendKeysEvents(keys)
    /\ UNCHANGED <<i_os, i_options>>

\* injector.send_key_combination(keys, options)
SendKeyCombination ==
    /\ i_options.state = "value"
    /\ \E keys \in KeyLists :
        /\ i_call' = [op |-> "send_key_combination", keys |-> keys]
        /\ i_events' = KeyCombinationEvents(keys)
    /\ UNCHANGED <<i_os, i_options>>

InjectNext ==
    \/ OptionsDefault
    \/ SendKeys
    \/ SendKeyCombination

(***************************************************************************)
(* The EVDEV keymap resolver and the per-character injection of the EVDEV  *)
(* backend.                                                                *)
(***************************************************************************)
\* Number of EVDEV backends constructed on the same layout and options.
MaxBuilds == 2

\* evdev key codes of the modifiers: left Ctrl, left Shift, right Alt
\* (AltGr, the level-3 modifier).
EV_CTRL == 29
EV_SHIFT == 42
EV_ALTGR == 100

\* The physical keys of the layouts of the model (KEY_1, KEY_2) and the
\* symbols they produce.
LayoutKeys == {2, 3}
Symbols == {"a", "b"}

\* The level of a key a set of held modifiers selects: Shift and AltGr
\* select it, the other modifiers do not change the symbol.
Level(subset) ==
    (IF EV_SHIFT \in subset THEN 1 ELSE 0)
        + (IF EV_ALTGR \in subset THEN 2 ELSE 0)

\* A loaded layout: the symbol of each key at each level.
Layouts == [LayoutKeys -> [0..3 -> Symbols]]

\* The probe configuration: evdev_modifiers and
\* evdev_max_modifier_combination_len of InjectorCreationOptions.
ProbeConfigs ==
    [evdev_modifiers :
         {None, Some(<<>>), Some(<<EV_SHIFT>>), Some(<<EV_ALTGR, EV_SHIFT>>),
          Some(<<EV_CTRL, EV_SHIFT, EV_ALTGR>>)},
     evdev_max_modifier_combination_len :
         {None, Some(0), Some(1), Some(2), Some(3)}]

\* The defaults of the probe configuration.
DefaultModifiers == <<EV_SHIFT, EV_ALTGR>>
DefaultMaxCombinationLen == 2

RangeOf(seq) == {seq[k] : k \in 1..Len(seq)}

\* The elements of a set of numbers in ascending order.
RECURSIVE Ascending(_)
Ascending(S) ==
    IF S = {} THEN <<>>
    ELSE LET m == CHOOSE x \in S : \A y \in S : x <= y
         IN  <<m>> \o Ascending(S \ {m})

\* The candidate modifiers, in ascending order of their codes.
CandidateModifiers(config) ==
    Ascending(RangeOf(IF config.evdev_modifiers = None
                      THEN DefaultModifiers
                      ELSE config.evdev_modifiers[1]))

\* The longest modifier combination probed.
MaxCombinationLen(config) ==
    IF config.evdev_max_modifier_combination_len = None
    THEN DefaultMaxCombinationLen
    ELSE config.evdev_max_modifier_combination_len[1]

\* The subsets of size k of the ascending sequence mods, each in ascending
\* order, the subsets in lexicographic order.
RECURSIVE Combinations(_, _)
Combinations(mods, k) ==
    IF k = 0 THEN << <<>> >>
    ELSE IF Len(mods) < k THEN <<>>
    ELSE LET with == Combinations(Tail(mods), k - 1)
         IN  [j \in 1..Len(with) |-> <<Head(mods)>> \o with[j]]
                 \o Combinations(Tail(mods), k)

Probe(key, mods) == [key |-> key, mods |-> mods]

\* The (key, subset) pairs for one subset size: ascending key code, then
\* the subsets in order.
RECURSIVE PairsOfKeys(_, _)
PairsOfKeys(keys, combos) ==
    IF keys = <<>> THEN <<>>
    ELSE [j \in 1..Len(combos) |-> Probe(Head(keys), combos[j])]
             \o PairsOfKeys(Tail(keys), combos)

\* An enumeration that probes one subset size more than the maximum.
RECURSIVE EnumerationFromOneMore(_, _)
EnumerationFromOneMore(config, size) ==
    IF size > MaxCombinationLen(config) + 1 THEN <<>>
    ELSE PairsOfKeys(Ascending(LayoutKeys),
                     Combinations(CandidateModifiers(config), size))
             \o EnumerationFromOneMore(config, size + 1)

\* An enumeration that goes through the subset sizes downwards.
RECURSIVE EnumerationDescending(_, _)
EnumerationDescending(config, size) ==
    IF size > MaxCombinationLen(config) THEN <<>>
    ELSE EnumerationDescending(config, size + 1)
             \o PairsOfKeys(Ascending(LayoutKeys),
                            Combinations(CandidateModifiers(config), size))

\* The enumeration of the resolver from a subset size on: ascending subset
\* size, then ascending key code, then the subsets.
RECURSIVE EnumerationFrom(_, _)
EnumerationFrom(config, size) ==
    IF size > MaxCombinationLen(config) THEN <<>>
    ELSE PairsOfKeys(Ascending(LayoutKeys),
                     Combinations(CandidateModifiers(config), size))
             \o EnumerationFrom(config, size + 1)

\* The symbol the layout produces for a key with the modifiers held.
SymbolOf(layout, probe) == layout[probe.key][Level(RangeOf(probe.mods))]

\* The table after the pairs: a symbol not yet recorded is recorded with
\* the pair that produces it, a recorded one is left alone.
RECURSIVE Record(_, _, _)
Record(layout, pairs, table) ==
    IF pairs = <<>> THEN table
    ELSE LET sym == SymbolOf(layout, Head(pairs))
         IN  Record(layout, Tail(pairs),
                    IF sym \in DOMAIN table THEN table
                    ELSE table @@ (sym :> Head(pairs)))

EmptyTable == [sym \in {} |-> Probe(0, <<>>)]

\* The keysym resolution table built at the construction of the backend.
BuildTable(layout, config) ==
    Record(layout, EnumerationFrom(config, 0), EmptyTable)

\* The events of the injection of one symbol: the modifiers of its entry
\* are pressed in order, the key is pressed and released, the modifiers are
\* released in reverse order; nothing when the table has no entry.
CharEvents(table, sym) ==
    IF sym \notin DOMAIN table THEN <<>>
    ELSE KeyCombinationEvents(Append(table[sym].mods, table[sym].key))

VARIABLES
    r_layout,   \* the loaded keyboard layout
    r_config,   \* the probe configuration
    r_tables,   \* the tables of the backends constructed so far, in order
    r_inject    \* the last injection of a character on the first backend

rvars == <<r_layout, r_config, r_tables, r_inject>>

NoInjection == [sym |-> "none", resolved |-> FALSE, events |-> <<>>]

ResolverIdle ==
    /\ r_tables = <<>>
    /\ r_inject = NoInjection

ResolverInit ==
    /\ r_layout \in Layouts
    /\ r_config \in ProbeConfigs
    /\ ResolverIdle

ResolverAtRest ==
    /\ r_layout = [k \in LayoutKeys |-> [l \in 0..3 |-> "a"]]
    /\ r_config = [evdev_modifiers |-> None,
                   evdev_max_modifier_combination_len |-> None]
    /\ ResolverIdle

\* An EVDEV backend is constructed: its table is built.
ConstructEvdev ==
    /\ Len(r_tables) < MaxBuilds
    /\ r_tables' = Append(r_tables, BuildTable(r_layout, r_config))
    /\ UNCHANGED <<r_layout, r_config, r_inject>>

\* The first backend injects one character.
InjectChar ==
    /\ r_tables # <<>>
    /\ \E sym \in Symbols :
        r_inject' = [sym |-> sym,
                     resolved |-> sym \in DOMAIN r_tables[1],
                     events |-> CharEvents(r_tables[1], sym)]
    /\ UNCHANGED <<r_layout, r_config, r_tables>>

ResolverNext ==
    \/ ConstructEvdev
    \/ InjectChar

(***************************************************************************)
(* Specifications: one per component, the other components at rest.        *)
(***************************************************************************)
vars == <<evars, dvars, cvars, lvars, ivars, rvars>>

DispatchAtRest == d_os = "linux" /\ d_session = "x11" /\ DispatchIdle

InitEngine == EngineInit /\ DispatchAtRest /\ CaptureInit /\ LifeInit /\ InjectAtRest
    /\ ResolverAtRest
NextEngine ==
    \/ OnMatchCall /\ UNCHANGED <<dvars, cvars, lvars, ivars, rvars>>
    \/ OnMatchDelete /\ UNCHANGED <<dvars, cvars, lvars, ivars, rvars>>
    \/ OnMatchIter /\ UNCHANGED <<dvars, cvars, lvars, ivars, rvars>>
    \/ OnMatchReturn /\ UNCHANGED <<dvars, cvars, lvars, ivars, rvars>>
    \/ MatcherWait /\ UNCHANGED <<dvars, cvars, lvars, ivars, rvars>>
SpecEngine == InitEngine /\ [][NextEngine]_vars

InitDispatch == EngineInit /\ DispatchInit /\ CaptureInit /\ LifeInit /\ InjectAtRest
    /\ ResolverAtRest
NextDispatch ==
    \/ GetInjectorCall /\ UNCHANGED <<evars, cvars, lvars, ivars, rvars>>
    \/ GetInjectorConstruct /\ UNCHANGED <<evars, cvars, lvars, ivars, rvars>>
SpecDispatch == InitDispatch /\ [][NextDispatch]_vars

InitCapture == EngineInit /\ DispatchAtRest /\ CaptureInit /\ LifeInit /\ InjectAtRest
    /\ ResolverAtRest
NextCapture ==
    \/ KeypressCallback /\ UNCHANGED <<evars, dvars, lvars, ivars, rvars>>
    \/ Recv /\ UNCHANGED <<evars, dvars, lvars, ivars, rvars>>
    \/ DropReceiver /\ UNCHANGED <<evars, dvars, lvars, ivars, rvars>>
SpecCapture == InitCapture /\ [][NextCapture]_vars

InitLife == EngineInit /\ DispatchAtRest /\ CaptureInit /\ LifeInit /\ InjectAtRest
    /\ ResolverAtRest
NextLife ==
    \/ \E i \in ContextIds : ContextNew(i) /\ UNCHANGED <<evars, dvars, cvars, ivars, rvars>>
    \/ \E i \in ContextIds :
           EventLoopEnter(i) /\ UNCHANGED <<evars, dvars, cvars, ivars, rvars>>
    \/ NativeKeyEvent /\ UNCHANGED <<evars, dvars, cvars, ivars, rvars>>
    \/ EventLoopExit /\ UNCHANGED <<evars, dvars, cvars, ivars, rvars>>
    \/ \E i \in ContextIds : ContextDrop(i) /\ UNCHANGED <<evars, dvars, cvars, ivars, rvars>>
SpecLife == InitLife /\ [][NextLife]_vars

InitInject ==
    /\ EngineInit /\ DispatchAtRest /\ CaptureInit /\ LifeInit /\ InjectInit
    /\ ResolverAtRest
NextInject ==
    \/ OptionsDefault /\ UNCHANGED <<evars, dvars, cvars, lvars, rvars>>
    \/ SendKeys /\ UNCHANGED <<evars, dvars, cvars, lvars, rvars>>
    \/ SendKeyCombination /\ UNCHANGED <<evars, dvars, cvars, lvars, rvars>>
SpecInject == InitInject /\ [][NextInject]_vars

InitResolver ==
    /\ EngineInit /\ DispatchAtRest /\ CaptureInit /\ LifeInit /\ InjectAtRest
    /\ ResolverInit
NextResolver ==
    \/ ConstructEvdev /\ UNCHANGED <<evars, dvars, cvars, lvars, ivars>>
    \/ InjectChar /\ UNCHANGED <<evars, dvars, cvars, lvars, ivars>>
SpecResolver == InitResolver /\ [][NextResolver]_vars


(***************************************************************************)
(* Measures on the calls of on_match and on the replacement text.          *)
(***************************************************************************)
IsInsertion(call) == call.op \in {"send_string", "send_enter"}

CountOp(cs, op) == Cardinality({k \in 1..Len(cs) : cs[k].op = op})

\* The deletion events issued: delete_string(count) deletes count
\* characters.
RECURSIVE DeletionEvents(_)
DeletionEvents(cs) ==
    IF cs = <<>> THEN 0
    ELSE (IF Head(cs).op = "delete_string" THEN Head(cs).count ELSE 0)
             + DeletionEvents(Tail(cs))

\* The line breaks of a text: every "\n", alone or after a "\r".
LineBreaks(text) == Cardinality({p \in 1..Len(text) : text[p] = LF})

\* What reaches the focused application: a typed character or a press of
\* the Enter key.
TypedChar(c) == [enter |-> FALSE, char |-> c]
EnterKey == [enter |-> TRUE, char |-> 0]

TypedString(s) == [p \in 1..Len(s) |-> TypedChar(s[p])]

\* What the insertion calls type, character by character.
RECURSIVE TypedEvents(_)
TypedEvents(cs) ==
    IF cs = <<>> THEN <<>>
    ELSE (IF Head(cs).op = "send_enter" THEN <<EnterKey>>
          ELSE IF Head(cs).op = "send_string" THEN TypedString(Head(cs).text)
          ELSE <<>>) \o TypedEvents(Tail(cs))

\* The text with every line break ("\n" or "\r\n") replaced by Enter: the
\* segments of the text in order, one Enter between two consecutive ones.
RECURSIVE WithEnters(_)
WithEnters(text) ==
    IF text = <<>> THEN <<>>
    ELSE IF Head(text) = LF THEN <<EnterKey>> \o WithEnters(Tail(text))
    ELSE IF Head(text) = CR /\ Len(text) >= 2 /\ text[2] = LF
         THEN <<EnterKey>> \o WithEnters(Tail(Tail(text)))
    ELSE <<TypedChar(Head(text))>> \o WithEnters(Tail(text))

IsPrefix(s, t) == Len(s) <= Len(t) /\ s = SubSeq(t, 1, Len(s))

(***************************************************************************)
(* Properties of Engine::on_match (SpecEngine).                            *)
(***************************************************************************)
\* C1: in the calls on_match makes on the sender, the first call is the
\* deletion, every deletion comes before every insertion (send_string or
\* send_enter), and no deletion follows an insertion.
C1_DeletionsBeforeInsertions ==
    /\ calls # <<>> => calls[1].op = "delete_string"
    /\ \A j \in 1..Len(calls), k \in 1..Len(calls) :
           (calls[j].op = "delete_string" /\ IsInsertion(calls[k])) => j < k

C1_Witness ==
    /\ e_pc = "done"
    /\ e_match.trigger # <<>>
    /\ CountOp(calls, "delete_string") = 1
    /\ CountOp(calls, "send_enter") >= 1
    /\ CountOp(calls, "send_string") >= 2

\* C2: once on_match has issued its deletions, the number of deletion
\* events equals the number of characters of the trigger.
C2_OneDeletionPerCharacter ==
    e_pc \in {"loop", "done"} =>
        DeletionEvents(calls) = Len(e_match.trigger)

\* C3: when on_match has returned, the number of send_enter calls equals
\* the number of line breaks of the replacement.
C3_OneEnterPerLineBreak ==
    e_pc = "done" =>
        CountOp(calls, "send_enter") = LineBreaks(e_match.replace)

\* C4: no argument of a send_string call contains a newline character.
C4_NoRawNewline ==
    \A k \in 1..Len(calls) :
        calls[k].op = "send_string" =>
            \A p \in 1..Len(calls[k].text) : calls[k].text[p] # LF

C4_Witness ==
    /\ e_pc = "done"
    /\ LineBreaks(e_match.replace) >= 1
    /\ \E k \in 1..Len(calls) :
           calls[k].op = "send_string" /\ calls[k].text # <<>>

\* C5: when on_match has returned, what it typed after the deletions is the
\* replacement with its segments in order and exactly one Enter in the
\* place of each line break that separates two segments.
C5_SegmentsInOrder ==
    e_pc = "done" => TypedEvents(calls) = WithEnters(e_match.replace)

(***************************************************************************)
(* Properties of get_injector (SpecDispatch).                              *)
(***************************************************************************)
\* C6: on Linux a call of get_injector invokes exactly one constructor:
\* EVDEV in a Wayland build whatever use_evdev is, X11 in an X11 build with
\* use_evdev = false, EVDEV in an X11 build with use_evdev = true; the
\* result names that backend, whatever the other options are.
C6_DispatchTable ==
    (d_pc = "returned" /\ d_os = "linux") =>
        /\ Len(d_constructed) = 1
        /\ d_result.backend = d_constructed[1]
        /\ d_session = "wayland" => d_constructed[1] = "EVDEV"
        /\ (d_session = "x11" /\ ~d_options.use_evdev) =>
               d_constructed[1] = "X11"
        /\ (d_session = "x11" /\ d_options.use_evdev) =>
               d_constructed[1] = "EVDEV"

C6_Witness ==
    /\ d_pc = "returned"
    /\ d_os = "linux"
    /\ d_session = "wayland"
    /\ ~d_options.use_evdev
    /\ d_options.evdev_modifiers # None
    /\ d_constructed = <<"EVDEV">>
    /\ d_result = Ok("EVDEV")

\* C7: when the constructor of the selected backend fails, get_injector
\* returns that failure and no injector, and it has invoked that one
\* constructor once and no other.
C7_NoFallback ==
    /\ Len(d_constructed) <= 1
    /\ (d_pc = "returned" /\ ~d_ctor_ok) =>
           /\ ~d_result.ok
           /\ d_constructed =
                  <<SelectBackend(d_os, d_session, d_options)>>
           /\ d_result.backend = d_constructed[1]

C7_Witness ==
    /\ d_pc = "returned"
    /\ ~d_ctor_ok
    /\ d_os = "linux"
    /\ d_session = "x11"
    /\ d_options.use_evdev
    /\ d_constructed = <<"EVDEV">>
    /\ d_result = Err("EVDEV")

(***************************************************************************)
(* Properties of keypress_callback and the channel (SpecCapture).          *)
(***************************************************************************)
KnownKeyCodes == {133, 50, 64, 37, 22}

\* The step is an invocation of the callback with a modifier event whose
\* key code is outside the known set.
UnknownModifierStep ==
    /\ c_keys' = c_keys + 1
    /\ c_last'.is_modifier # 0
    /\ c_last'.key_code \notin KnownKeyCodes

\* C8: an invocation of the callback with a modifier event whose key code
\* is outside {133, 50, 64, 37, 22} sends nothing, leaves the channel as
\* it was and returns to the event loop, also when the receiver is gone.
C8_UnknownModifierDropped ==
    [][UnknownModifierStep =>
          /\ c_chan' = c_chan
          /\ c_emitted' = c_emitted
          /\ c_pc' = "eventloop"
          /\ c_last'.sends = 0
          /\ c_last'.returned]_vars

C8_Witness ==
    /\ c_keys = MaxKeys
    /\ c_last.is_modifier # 0
    /\ c_last.key_code \notin KnownKeyCodes
    /\ c_rx = "dropped"
    /\ c_pc = "eventloop"

\* C9: the messages received are the first events the callback sent, in
\* the order of the invocations; while the receiver is alive the messages
\* received followed by the messages in the channel are exactly the events
\* sent: none is lost, duplicated or reordered.
C9_ChannelOrder ==
    /\ IsPrefix(c_received, c_emitted)
    /\ c_rx = "alive" => c_received \o c_chan = c_emitted

C9_Witness ==
    /\ Len(c_received) = 2
    /\ c_received[1] # c_received[2]
    /\ c_received = c_emitted

\* C10: every invocation of the callback makes at most one channel send and
\* returns to the native event loop, in every state of the channel.
C10_ForwardAndReturn ==
    /\ c_last.sends <= 1
    /\ c_last.returned
    /\ c_pc = "eventloop"


(***************************************************************************)
(* Classification of the native key events (SpecCapture).                  *)
(***************************************************************************)
\* The step is an invocation of the callback with a character event.
CharEventStep ==
    /\ c_keys' = c_keys + 1
    /\ c_last'.is_modifier = 0

\* The step is an invocation of the callback with a modifier event whose
\* key code is in the known set.
KnownModifierStep ==
    /\ c_keys' = c_keys + 1
    /\ c_last'.is_modifier # 0
    /\ c_last'.key_code \in KnownKeyCodes

\* The UTF-8 encoding of a character below U+10000.
Utf8Encode(c) ==
    IF c < 128 THEN <<c>>
    ELSE IF c < 2048 THEN <<192 + (c \div 64), 128 + (c % 64)>>
    ELSE <<224 + (c \div 4096), 128 + ((c \div 64) % 64), 128 + (c % 64)>>

\* The characters whose encoding is made of the bytes of the model.
EncodableChars == {c \in 0..255 : \A p \in 1..Len(Utf8Encode(c)) :
                                      Utf8Encode(c)[p] \in BufferBytes}

\* The character a non-empty buffer starts with: the one whose encoding
\* the buffer begins with, U+FFFD when there is none.
LeadingChar(buffer) ==
    IF \E c \in EncodableChars : IsPrefix(Utf8Encode(c), buffer)
    THEN CHOOSE c \in EncodableChars : IsPrefix(Utf8Encode(c), buffer)
    ELSE REPLACEMENT_CHARACTER

\* C12 as claimed: every character event makes exactly one send, of a Char
\* event, whatever the buffer is.
C12_CharEventEmitsOneChar ==
    (c_keys > 0 /\ c_last.is_modifier = 0) =>
        /\ c_last.sends = 1
        /\ c_emitted # <<>>
        /\ c_emitted[Len(c_emitted)].kind = "Char"

\* C12 amended: a character event with a non-empty buffer emits exactly
\* one Char event, of the first character of the buffer (U+FFFD when the
\* buffer does not start with valid UTF-8, whatever follows is ignored);
\* with an empty buffer it emits nothing and returns; it never emits a
\* Modifier event.
C12_CharEventAmended ==
    [][CharEventStep =>
          IF c_last'.buffer = <<>>
          THEN /\ c_emitted' = c_emitted
               /\ c_chan' = c_chan
               /\ c_last'.sends = 0
               /\ c_last'.returned
          ELSE /\ c_emitted' =
                     Append(c_emitted, CharEvent(LeadingChar(c_last'.buffer)))
               /\ c_last'.sends = 1]_vars

C12_Witness ==
    /\ c_keys > 0
    /\ c_last.is_modifier = 0
    /\ c_last.buffer = <<169, 97>>
    /\ c_last.sends = 1
    /\ c_chan # <<>>
    /\ c_chan[Len(c_chan)] = CharEvent(REPLACEMENT_CHARACTER)

\* The modifier of each known key code.
ModifierTable ==
    [k \in KnownKeyCodes |->
        CASE k = 133 -> "META"
          [] k = 50 -> "SHIFT"
          [] k = 64 -> "ALT"
          [] k = 37 -> "CTRL"
          [] k = 22 -> "BACKSPACE"]

\* C13: a modifier event whose key code is in the known set emits exactly
\* one Modifier event, 133 -> META, 50 -> SHIFT, 64 -> ALT, 37 -> CTRL,
\* 22 -> BACKSPACE, whatever the buffer holds, and no Char event.
C13_KnownModifierEmitted ==
    [][KnownModifierStep =>
          /\ c_emitted' =
                Append(c_emitted,
                       ModifierEvent(ModifierTable[c_last'.key_code]))
          /\ c_last'.sends = 1
          /\ c_rx = "alive" =>
                c_chan' = Append(c_chan,
                       ModifierEvent(ModifierTable[c_last'.key_code]))]_vars

C13_Witness ==
    /\ c_keys > 0
    /\ c_last.is_modifier # 0
    /\ c_last.key_code = 64
    /\ c_last.buffer = <<97, 97>>
    /\ c_chan # <<>>
    /\ c_chan[Len(c_chan)] = ModifierEvent("ALT")

\* The invocation has an event to emit: a character event with a non-empty
\* buffer or a modifier event with a known key code.
HasEventToEmit(inv) ==
    \/ inv.is_modifier = 0 /\ inv.buffer # <<>>
    \/ inv.is_modifier # 0 /\ inv.key_code \in KnownKeyCodes

\* C18: an invocation of the callback fails only when it has an event to
\* emit and the receiver has been dropped; every other invocation returns
\* to the event loop.
C18_PanicsOnlyWhenReceiverGone ==
    [][c_keys' = c_keys + 1 =>
          /\ ~c_last'.returned => (c_rx = "dropped" /\ HasEventToEmit(c_last'))
          /\ c_last'.returned => c_pc' = "eventloop"
          /\ c_rx = "alive" => c_last'.returned]_vars

C18_Witness ==
    /\ c_keys = MaxKeys
    /\ c_rx = "dropped"
    /\ c_last.is_modifier = 0
    /\ c_last.buffer = <<>>
    /\ c_last.returned
    /\ c_pc = "eventloop"

(***************************************************************************)
(* The number of insertion calls of on_match (SpecEngine).                 *)
(***************************************************************************)
\* The lines of a text: one per line break, and one more for what follows
\* the last line break, if anything does.
LineCount(text) ==
    LineBreaks(text)
        + (IF text # <<>> /\ text[Len(text)] # LF THEN 1 ELSE 0)

C11_HookBoundedByContext ==
    /\ \A i \in ContextIds :
        /\ l_ctx[i] = "none" => (l_status[i] = "none" /\ l_cleanups[i] = 0)
        /\ l_ctx[i] = "live" =>
               (native.callback /\ l_status[i] # "none" /\ l_cleanups[i] = 0)
        /\ l_ctx[i] = "dropped" => l_cleanups[i] = 1
        /\ l_ran[i] => l_ctx[i] \in {"live", "dropped"}
        /\ l_loop = i => l_ctx[i] = "live"
    /\ native.hook => (native.handle # 0 /\ l_ctx[native.handle] = "live")
    /\ ~l_stale

C11_Witness ==
    /\ MaxContexts >= 2
    /\ l_ctx[1] = "live"
    /\ l_ctx[2] = "dropped"
    /\ l_status[1] = "ok"
    /\ l_status[2] = "ok"
    /\ l_self = 2
    /\ l_loop = 1
    /\ ~native.hook

\* C19: new returns a context whatever status initialize returned; after a
\* failed initialization eventloop can be run on the context and its drop
\* calls cleanup.
C19_NewIgnoresStatus ==
    \A i \in ContextIds :
        /\ l_status[i] # "none" => l_ctx[i] \in {"live", "dropped"}
        /\ l_status[i] = "error" =>
            /\ (l_ctx[i] = "live" /\ l_loop = 0) => ENABLED EventLoopEnter(i)
            /\ l_ctx[i] = "dropped" => l_cleanups[i] = 1

C19_Witness ==
    /\ l_status[1] = "error"
    /\ l_ran[1]
    /\ l_ctx[1] = "dropped"
    /\ l_cleanups[1] = 1


(***************************************************************************)
(* Properties of the Injector capability and its options (SpecInject).     *)
(***************************************************************************)
\* C14: send_key_combination(keys) dispatches 2 * Len(keys) events: the
\* k-th is the press of the k-th key, and the release of the k-th key is
\* the k-th event from the end; hence no release comes before the last
\* press.
C14_ChordPressThenReverseRelease ==
    i_call.op = "send_key_combination" =>
        LET n == Len(i_call.keys) IN
        /\ Len(i_events) = 2 * n
        /\ \A k \in 1..n :
            /\ i_events[k] = Press(i_call.keys[k])
            /\ i_events[2 * n + 1 - k] = Release(i_call.keys[k])

C14_Witness ==
    /\ i_call = [op |-> "send_key_combination", keys |-> <<"CTRL", "SHIFT", "C">>]
    /\ i_events = <<Press("CTRL"), Press("SHIFT"), Press("C"),
                    Release("C"), Release("SHIFT"), Release("CTRL")>>

\* C17: InjectionOptions::default() has delay 0 on Windows, 2 on macOS and
\* 0 on Linux, with disable_fast_inject = false; on any other system it
\* panics and returns no value.
C17_DefaultInjectionOptions ==
    i_options.state # "none" =>
        /\ i_os = "windows" =>
               i_options = [state |-> "value", delay |-> 0,
                            disable_fast_inject |-> FALSE]
        /\ i_os = "macos" =>
               i_options = [state |-> "value", delay |-> 2,
                            disable_fast_inject |-> FALSE]
        /\ i_os = "linux" =>
               i_options = [state |-> "value", delay |-> 0,
                            disable_fast_inject |-> FALSE]
        /\ i_os \notin {"windows", "macos", "linux"} =>
               i_options.state = "panic"

C17_Witness ==
    /\ i_os = "macos"
    /\ i_options.state = "value"
    /\ i_options.delay = 2
    /\ ~i_options.disable_fast_inject


(***************************************************************************)
(* Properties of the EVDEV keymap resolver (SpecResolver).                 *)
(***************************************************************************)
\* The maximum combination length the options configure, or its default.
ConfiguredMaxLen ==
    IF r_config.evdev_max_modifier_combination_len = None
    THEN DefaultMaxCombinationLen
    ELSE r_config.evdev_max_modifier_combination_len[1]

\* The candidate modifiers the options configure, or their default.
ConfiguredModifiers ==
    IF r_config.evdev_modifiers = None
    THEN RangeOf(DefaultModifiers)
    ELSE RangeOf(r_config.evdev_modifiers[1])

\* C15: no entry of a table uses more modifiers than the configured
\* maximum combination length (or its default), for every layout and every
\* candidate list; and no step, an injection included, changes the table
\* of a backend once it is built.
C15_TableWithinMaxLen ==
    /\ [](\A t \in 1..Len(r_tables) : \A sym \in DOMAIN r_tables[t] :
              Len(r_tables[t][sym].mods) <= ConfiguredMaxLen)
    /\ [][/\ Len(r_tables') >= Len(r_tables)
          /\ \A t \in 1..Len(r_tables) : r_tables'[t] = r_tables[t]
          /\ r_inject' # r_inject => r_tables' = r_tables]_vars

C15_Witness ==
    /\ r_tables # <<>>
    /\ r_config.evdev_modifiers = Some(<<EV_ALTGR, EV_SHIFT>>)
    /\ r_config.evdev_max_modifier_combination_len = Some(1)
    /\ "b" \in DOMAIN r_tables[1]
    /\ r_tables[1]["b"] = Probe(2, <<EV_SHIFT>>)
    /\ r_inject.sym = "b"
    /\ r_inject.resolved
    /\ r_inject.events = <<Press(EV_SHIFT), Press(2), Release(2),
                           Release(EV_SHIFT)>>

\* The pairs the resolver probes: every key with every set of at most the
\* maximum number of candidate modifiers, in ascending order of the codes.
ProbeSpace ==
    {Probe(key, Ascending(S)) :
        key \in LayoutKeys,
        S \in {T \in SUBSET ConfiguredModifiers :
                   Cardinality(T) <= ConfiguredMaxLen}}

LexBefore(a, b) ==
    \E k \in 1..Len(a) :
        /\ a[k] < b[k]
        /\ \A j \in 1..(k - 1) : a[j] = b[j]

\* p comes no later than q in the enumeration: ascending subset size, then
\* ascending key code, then ascending modifier codes.
NotAfter(p, q) ==
    \/ Len(p.mods) < Len(q.mods)
    \/ Len(p.mods) = Len(q.mods) /\ p.key < q.key
    \/ Len(p.mods) = Len(q.mods) /\ p.key = q.key
           /\ (p.mods = q.mods \/ LexBefore(p.mods, q.mods))

\* C16: a table has an entry for exactly the symbols some probed pair
\* produces; the entry of a symbol is the first pair of the enumeration
\* that produces it, so no pair with fewer modifiers produces it; and the
\* tables of two constructions on the same layout and configuration are
\* identical.
C16_FirstFoundWins ==
    /\ \A t \in 1..Len(r_tables) :
        /\ DOMAIN r_tables[t] = {SymbolOf(r_layout, p) : p \in ProbeSpace}
        /\ \A sym \in DOMAIN r_tables[t] :
            /\ r_tables[t][sym] \in ProbeSpace
            /\ SymbolOf(r_layout, r_tables[t][sym]) = sym
            /\ \A q \in ProbeSpace :
                   SymbolOf(r_layout, q) = sym =>
                       /\ NotAfter(r_tables[t][sym], q)
                       /\ Len(r_tables[t][sym].mods) <= Len(q.mods)
    /\ \A t, u \in 1..Len(r_tables) : r_tables[t] = r_tables[u]

C16_Witness ==
    /\ Len(r_tables) >= 2
    /\ r_config.evdev_modifiers = Some(<<EV_ALTGR, EV_SHIFT>>)
    /\ r_config.evdev_max_modifier_combination_len = Some(2)
    /\ r_layout[3][1] = "b"
    /\ r_layout[2][2] = "b"
    /\ r_layout[2][3] = "b"
    /\ "b" \in DOMAIN r_tables[1]
    /\ r_tables[1]["b"] = Probe(2, <<EV_ALTGR>>)
    /\ r_tables[2] = r_tables[1]

=============================================================================
